---- MODULE Spec2Model ----
(***************************************************************************)
(* Model of the LaTeX compiler worker (src/latex-compiler/worker.py).      *)
(*                                                                         *)
(* One project directory is watched.  The file system is the shared state: *)
(* compile/queue, compile/working, compile/status, compile/logs, the       *)
(* cancellation markers and the project's own files.  The environment is   *)
(* the producer of descriptors, the canceller that creates markers, the    *)
(* operator that sends the stop signal and the compiler subprocess.        *)
(* A worker is a sequential program; pc[w] is its position in the code.    *)
(***************************************************************************)
EXTENDS Integers, Sequences, FiniteSets, TLC

\* ------------------------------------------------------------------ bounds
\* number of descriptor files the producer ever writes
MaxJobs == 2
\* number of descriptor files it writes while two workers watch the root
MaxSharedJobs == 1

\* ------------------------------------------------------------- universes
Workers == {"w1", "w2"}
\* descriptor files d.json; a valid descriptor d.json carries jobId d
Descs == 1..MaxJobs
JobIds == Descs

\* a file name is the sequence of its dot-separated components
MainTex == <<"main", "tex">>
MainFigPdf == <<"main", "fig", "pdf">>
MissingTex == <<"missing", "tex">>
EntryNames == {MainTex, MissingTex}
\* the project directories a worker may find at start-up
InitialProjectFiles == { {MainTex}, {MainTex, MainFigPdf} }

\* what a producer may write into descriptor file f: a valid descriptor (its
\* revision is the producer's own, one per descriptor), or a malformed one
ValidContents(f) ==
    [kind : {"ok"}, projectId : {"p1"}, entryFile : EntryNames, revision : {f}]
\* not JSON; JSON but not an object; an object whose jobId or projectId is
\* missing or empty
MalformedKinds == {"unparseable", "nonobject", "missingid"}
MalformedContents ==
    [kind : MalformedKinds, projectId : {"p1"}, entryFile : {MainTex}, revision : {0}]
Contents(f) == ValidContents(f) \cup MalformedContents

\* a descriptor with jobId and projectId whose entryFile is not a string (null,
\* a number): it passes the validation of lines 91-94
NullEntry == <<>>
IllTypedContents(f) ==
    [kind : {"ok"}, projectId : {"p1"}, entryFile : {NullEntry}, revision : {f}]

\* the directory the worker process was started in, the project directory,
\* and the value of a local that holds no directory
StartDir == "start"
ProjectDir == "project"
NoDir == ""

\* the worker's locals before a job is read, and a jobId with no subprocess
NoJob == [kind |-> "none", projectId |-> "", entryFile |-> <<>>, revision |-> 0]
NoProc == [st |-> "none", unread |-> FALSE, rc |-> 0, doc |-> <<>>]

VARIABLES
    queue,      \* compile/queue: descriptor file -> content
    working,    \* compile/working: descriptor file -> content
    status,     \* compile/status: jobId -> status record (a dict: its keys vary)
    logs,       \* compile/logs: jobId -> sequence of log lines
    cancel,     \* the jobIds whose compile/<jobId>.cancel exists
    files,      \* the project directory's own files
    procs,      \* jobId -> the compiler subprocess started for it
    clock,      \* source of timestamps
    running,    \* worker -> self.running
    pc,         \* worker -> position in the code
    todo,       \* worker -> job files of the scan in progress, still to process
    cur,        \* worker -> job_file being processed (0: none)
    job,        \* worker -> job_data
    started_at, \* worker -> started_at
    success,    \* worker -> result of _compile_latex
    cwd,        \* worker -> current working directory
    original_cwd, \* worker -> original_cwd of _compile_latex
    active,     \* the worker processes that were started
    submitted,  \* history: descriptor files the producer has written
    marked,     \* history: jobIds whose marker was ever created
    claimed,    \* history: descriptor files ever moved to compile/working
    seenPre,    \* history: jobIds whose marker the pre-run check found
    seenMid,    \* history: jobIds whose marker the read loop found
    spawns,     \* history: jobId -> number of subprocesses started for it
    written     \* history: jobId -> the status records written for it, in order

vars == <<queue, working, status, logs, cancel, files, procs, clock, running, pc,
          todo, cur, job, started_at, success, cwd, original_cwd, active, submitted,
          marked,
          claimed, seenPre, seenMid, spawns, written>>

fsVars == <<queue, working, status, logs, cancel, files>>
localVars == <<todo, cur, job, started_at, success, cwd, original_cwd>>
histVars == <<submitted, marked, claimed, seenPre, seenMid, spawns, written>>

\* ------------------------------------------------------------ pure helpers
\* the file system's maps: create or overwrite an entry, delete an entry
Put(f, k, v) == (k :> v) @@ f
Unlink(f, k) == [x \in (DOMAIN f) \ {k} |-> f[x]]

\* Path(name).stem and Path(name).suffix
Stem(name) == IF Len(name) > 1 THEN SubSeq(name, 1, Len(name) - 1) ELSE name
Suffix(name) == IF Len(name) > 1 THEN name[Len(name)] ELSE ""

\* project_dir.glob(f"{stem}.*"): the names that start with the stem's components
GlobStem(dir, stem) ==
    { n \in dir : Len(n) > Len(stem) /\ SubSeq(n, 1, Len(stem)) = stem }

\* mutant: the test of the suffix is lost, any file of the glob counts
GeneratedAnySuffix(dir, entry) == GlobStem(dir, Stem(entry))

\* the files the loop over aux_files can stop at: those whose suffix is '.pdf'
GeneratedPdfs(dir, entry) ==
    { n \in GlobStem(dir, Stem(entry)) : Suffix(n) = "pdf" }

OutputPdf == <<"output", "pdf">>
\* mutant: the copy to output.pdf is lost
NoCopyToOutput(dir, gen) == dir

\* shutil.copy2 to output.pdf unless the generated file is output.pdf itself
CopyToOutput(dir, gen) == IF gen # OutputPdf THEN dir \cup {OutputPdf} ELSE dir

\* not all([job_id, project_id]) for a parsed JSON object
MissingIds(c) == c.kind = "missingid"

\* mutant: the 'canceled' status is given a startedAt, like the other two
CanceledStatusWithStart(j, c, t) ==
    [jobId |-> j, projectId |-> c.projectId, state |-> "canceled", startedAt |-> t,
     finishedAt |-> t]

\* mutant: the pre-run cancellation is reported as 'failed', like the mid-run one
CanceledStatusAsFailed(j, c, t) ==
    [jobId |-> j, projectId |-> c.projectId, state |-> "failed", finishedAt |-> t]

\* mutant: the final status takes a fresh startedAt instead of the recorded one
FinalStatusRestamped(j, c, ok, t0, t1) ==
    [jobId |-> j, projectId |-> c.projectId,
     state |-> IF ok THEN "success" ELSE "failed",
     revision |-> c.revision, startedAt |-> t1, finishedAt |-> t1]

\* the three status dicts the worker writes
CanceledStatus(j, c, t) ==
    [jobId |-> j, projectId |-> c.projectId, state |-> "canceled", finishedAt |-> t]
RunningStatus(j, c, t) ==
    [jobId |-> j, projectId |-> c.projectId, state |-> "running",
     revision |-> c.revision, startedAt |-> t]
FinalStatus(j, c, ok, t0, t1) ==
    [jobId |-> j, projectId |-> c.projectId,
     state |-> IF ok THEN "success" ELSE "failed",
     revision |-> c.revision, startedAt |-> t0, finishedAt |-> t1]

\* the permutations of a set of job files: the orders a directory listing may have
RECURSIVE Orders(_)
Orders(S) ==
    IF S = {} THEN {<<>>}
    ELSE UNION { { <<x>> \o t : t \in Orders(S \ {x}) } : x \in S }

\* mutant: the descriptor is copied to working/ and stays in queue/
QueueAfterCopy(q, f) == q

\* the claim: shutil.move takes the file out of queue/ and puts it into working/
QueueAfterMove(q, f) == Unlink(q, f)
WorkingAfterMove(wk, q, f) == Put(wk, f, q[f])

\* f.write: append one line to a job's log
LogAppend(lg, j, line) == Put(lg, j, Append(lg[j], line))

\* the engine's output in the log: "output" stands for one or more of its lines
LogOutput(lg, j) ==
    IF lg[j][Len(lg[j])] = "output" THEN lg ELSE LogAppend(lg, j, "output")

\* process.terminate(): a signal to a live process, nothing for one that has exited
Terminate(p) ==
    IF p.st = "running" THEN [p EXCEPT !.st = "terminating", !.unread = FALSE]
    ELSE [p EXCEPT !.unread = FALSE]

\* the Popen object is dropped with the job's locals: of an exited process
\* nothing is left to read
Forget(p) == IF p.st = "exited" THEN [NoProc EXCEPT !.st = "exited"] ELSE p

\* ------------------------------------------------------------------- Init
EmptyMap == [x \in {} |-> NoJob]

\* a worker process after construction, a project directory, no subprocess
InitProcess ==
    /\ cancel = {}
    /\ files \in InitialProjectFiles
    /\ procs = [j \in JobIds |-> NoProc]
    /\ clock = 1
    /\ running = [w \in Workers |-> TRUE]
    /\ pc = [w \in Workers |-> IF w \in active THEN "loop" ELSE "off"]
    /\ todo = [w \in Workers |-> <<>>]
    /\ cur = [w \in Workers |-> 0]
    /\ job = [w \in Workers |-> NoJob]
    /\ started_at = [w \in Workers |-> 0]
    /\ success = [w \in Workers |-> FALSE]
    /\ cwd = [w \in Workers |-> StartDir]
    /\ original_cwd = [w \in Workers |-> NoDir]
    /\ marked = {}
    /\ claimed = {}
    /\ seenPre = {}
    /\ seenMid = {}
    /\ spawns = [j \in JobIds |-> 0]
    /\ written = [j \in JobIds |-> <<>>]

\* the compile/ directories are empty, no descriptor was written yet
InitCommon ==
    /\ queue = EmptyMap
    /\ working = EmptyMap
    /\ status = EmptyMap
    /\ logs = EmptyMap
    /\ submitted = {}
    /\ InitProcess

\* one worker process, the deployment the code is written for
Init == active = {"w1"} /\ InitCommon

\* the descriptor an earlier worker process had moved to working/ when it was
\* killed
OrphanDesc == 1

\* a worker process started after an earlier one was killed in the middle of
\* a job: the descriptor is in working/, its status is 'running', its log has
\* the header, the queue is empty
InitRestart ==
    /\ active = {"w1"}
    /\ queue = EmptyMap
    /\ \E c \in ValidContents(OrphanDesc) :
          /\ working = (OrphanDesc :> c)
          /\ status = (OrphanDesc :> RunningStatus(OrphanDesc, c, 0))
    /\ logs = (OrphanDesc :> <<"header">>)
    /\ submitted = {OrphanDesc}
    /\ InitProcess

\* ------------------------------------------------------- worker: control
Goto(w, l) == pc' = [pc EXCEPT ![w] = l]

\* _process_job returns (or raises into _process_pending_jobs' except clause):
\* its locals are gone and the scan goes on with the next job file
Return(w) ==
    /\ Goto(w, "next")
    /\ cur' = [cur EXCEPT ![w] = 0]
    /\ job' = [job EXCEPT ![w] = NoJob]
    /\ started_at' = [started_at EXCEPT ![w] = 0]
    /\ success' = [success EXCEPT ![w] = FALSE]

\* an error raised in _process_job reaches the except clause of
\* _process_pending_jobs, lines 73-74: it is logged and the for loop goes on
\* mutant: no except clause around _process_job, the error ends the run loop's
\* iteration and the worker
RaiseEndsWorker(w) ==
    /\ Goto(w, "stopped")
    /\ cur' = [cur EXCEPT ![w] = 0]
    /\ job' = [job EXCEPT ![w] = NoJob]
    /\ started_at' = [started_at EXCEPT ![w] = 0]
    /\ success' = [success EXCEPT ![w] = FALSE]

Raise(w) == Return(w)

\* mutant: the run loop is "while True"
LoopTestIgnored(flag) == "scan"

\* line 46: while self.running
AfterLoopTest(flag) == IF flag THEN "scan" ELSE "stopped"

\* run: the sleep after a scan and the test of self.running at the top of the
\* loop
LoopCheck(w) ==
    /\ pc[w] = "loop"
    /\ Goto(w, AfterLoopTest(running[w]))
    /\ UNCHANGED <<fsVars, procs, clock, running, localVars, active, histVars>>

\* mutant: the scan lists compile/working as well
JobFilesWithWorking(q, wk) == DOMAIN q \cup DOMAIN wk

\* line 70: queue_dir.glob("*.json"), the files of compile/queue
JobFiles(q, wk) == DOMAIN q

\* _process_pending_jobs: queue_dir.glob("*.json") lists the queue in some order
Scan(w) ==
    /\ pc[w] = "scan"
    /\ \E o \in Orders(JobFiles(queue, working)) : todo' = [todo EXCEPT ![w] = o]
    /\ Goto(w, "next")
    /\ UNCHANGED <<fsVars, procs, clock, running, cur, job, started_at, success, cwd, original_cwd,
                   active, histVars>>

\* the for loop takes the next job file; at its end run sleeps and loops
NextJob(w) ==
    /\ pc[w] = "next"
    /\ IF todo[w] = <<>>
       THEN /\ Goto(w, "loop")
            /\ UNCHANGED <<todo, cur>>
       ELSE /\ Goto(w, "read")
            /\ cur' = [cur EXCEPT ![w] = Head(todo[w])]
            /\ todo' = [todo EXCEPT ![w] = Tail(todo[w])]
    /\ UNCHANGED <<fsVars, procs, clock, running, job, started_at, success, cwd, original_cwd,
                   active, histVars>>

\* _process_job, lines 78-94: read, parse and validate the descriptor
ReadJob(w) ==
    LET f == cur[w] IN
    /\ pc[w] = "read"
    /\ IF f \notin DOMAIN queue \/ queue[f].kind = "unparseable"
       THEN \* open or json.load raises: unlink(missing_ok=True), return
            /\ queue' = Unlink(queue, f)
            /\ Return(w)
       ELSE IF queue[f].kind = "nonobject"
       THEN \* job_data.get raises AttributeError, caught by the scan: file stays
            /\ queue' = queue
            /\ Raise(w)
       ELSE IF MissingIds(queue[f])
       THEN /\ queue' = Unlink(queue, f)
            /\ Return(w)
       ELSE /\ queue' = queue
            /\ job' = [job EXCEPT ![w] = queue[f]]
            /\ Goto(w, "cancelcheck")
            /\ UNCHANGED <<cur, started_at, success>>
    /\ UNCHANGED <<working, status, logs, cancel, files, procs, clock, running, todo,
                   cwd, original_cwd, active, histVars>>

\* mutant: the test for the entry file is lost
EntryAssumed(dir, entry) == TRUE

\* entry_path.exists()
EntryExists(dir, entry) == entry \in dir

\* _process_job, lines 101-109: the pre-run check of the marker; when it is
\* there, the 'canceled' status is written
CancelCheck(w) ==
    LET j == cur[w] IN
    /\ pc[w] = "cancelcheck"
    /\ IF j \in cancel
       THEN /\ status' = Put(status, j, CanceledStatus(j, job[w], clock))
            /\ clock' = clock + 1
            /\ written' = [written EXCEPT ![j] = Append(@, CanceledStatus(j, job[w], clock))]
            /\ seenPre' = seenPre \cup {j}
            /\ Goto(w, "cancel_unlink_job")
       ELSE /\ Goto(w, "claim")
            /\ UNCHANGED <<status, clock, written, seenPre>>
    /\ UNCHANGED <<queue, working, logs, cancel, files, procs, running, localVars,
                   active, submitted, marked, claimed, seenMid, spawns>>

\* line 110: job_file.unlink(missing_ok=True)
CancelUnlinkJob(w) ==
    /\ pc[w] = "cancel_unlink_job"
    /\ queue' = Unlink(queue, cur[w])
    /\ Goto(w, "cancel_unlink_marker")
    /\ UNCHANGED <<working, status, logs, cancel, files, procs, clock, running,
                   localVars, active, histVars>>

\* lines 111-112: cancel_file.unlink(missing_ok=True); return
CancelUnlinkMarker(w) ==
    /\ pc[w] = "cancel_unlink_marker"
    /\ cancel' = cancel \ {cur[w]}
    /\ Return(w)
    /\ UNCHANGED <<queue, working, status, logs, files, procs, clock, running, todo,
                   cwd, original_cwd, active, histVars>>

\* lines 116-120: shutil.move(job_file, working_job); it raises when the file
\* is no longer in queue/, and the scan's except clause takes the error
Claim(w) ==
    LET f == cur[w] IN
    /\ pc[w] = "claim"
    /\ IF f \in DOMAIN queue
       THEN /\ queue' = QueueAfterMove(queue, f)
            /\ working' = WorkingAfterMove(working, queue, f)
            /\ claimed' = claimed \cup {f}
            /\ Goto(w, "announce")
            /\ UNCHANGED <<cur, job, started_at, success>>
       ELSE /\ Raise(w)
            /\ UNCHANGED <<queue, working, claimed>>
    /\ UNCHANGED <<status, logs, cancel, files, procs, clock, running, todo, cwd, original_cwd,
                   active, submitted, marked, seenPre, seenMid, spawns, written>>

\* lines 122-131: started_at = now; the 'running' status is written
AnnounceRunning(w) ==
    LET j == cur[w] IN
    /\ pc[w] = "announce"
    /\ started_at' = [started_at EXCEPT ![w] = clock]
    /\ clock' = clock + 1
    /\ status' = Put(status, j, RunningStatus(j, job[w], clock))
    /\ written' = [written EXCEPT ![j] = Append(@, RunningStatus(j, job[w], clock))]
    /\ Goto(w, "initlog")
    /\ UNCHANGED <<queue, working, logs, cancel, files, procs, running, todo, cur, job,
                   success, cwd, original_cwd, active, submitted, marked, claimed, seenPre,
                   seenMid, spawns>>

\* lines 133-140: the log file is opened with 'w' and gets its header
InitLog(w) ==
    /\ pc[w] = "initlog"
    /\ logs' = Put(logs, cur[w], <<"header">>)
    /\ Goto(w, "entrycheck")
    /\ UNCHANGED <<queue, working, status, cancel, files, procs, clock, running,
                   localVars, active, histVars>>

\* line 173: project_dir / entry_file raises TypeError when entry_file is not
\* a string
PathJoinRaises(entry) == entry = NullEntry

\* mutant: the working directory is not restored
NoRestoreCwd(w) ==
    /\ cwd' = cwd
    /\ original_cwd' = [original_cwd EXCEPT ![w] = NoDir]

\* lines 259-260: finally: os.chdir(original_cwd)
RestoreCwd(w) ==
    /\ cwd' = [cwd EXCEPT ![w] = original_cwd[w]]
    /\ original_cwd' = [original_cwd EXCEPT ![w] = NoDir]

\* _compile_latex, lines 173-181: the path of the entry file is built (an
\* error there leaves _process_job: the working/ copy and the 'running' status
\* stay); without the entry file the compile step returns False; with it the
\* worker notes its directory and changes into the project directory
EntryCheck(w) ==
    /\ pc[w] = "entrycheck"
    /\ IF PathJoinRaises(job[w].entryFile)
       THEN /\ Raise(w)
            /\ UNCHANGED <<logs, cwd, original_cwd>>
       ELSE IF EntryExists(files, job[w].entryFile)
       THEN /\ original_cwd' = [original_cwd EXCEPT ![w] = cwd[w]]
            /\ cwd' = [cwd EXCEPT ![w] = ProjectDir]
            /\ Goto(w, "spawn")
            /\ UNCHANGED <<logs, cur, job, started_at, success>>
       ELSE /\ logs' = LogAppend(logs, cur[w], "entry_not_found")
            /\ success' = [success EXCEPT ![w] = FALSE]
            /\ Goto(w, "finalize")
            /\ UNCHANGED <<cwd, original_cwd, cur, job, started_at>>
    /\ UNCHANGED <<queue, working, status, cancel, files, procs, clock, running, todo,
                   active, histVars>>

\* lines 183-204: the command is logged and subprocess.Popen starts the engine;
\* Popen raises when the engine cannot be executed (lines 255-260 take that)
Spawn(w) ==
    LET j == cur[w] IN
    /\ pc[w] = "spawn"
    /\ \E started \in BOOLEAN :
        IF started
        THEN /\ logs' = LogAppend(logs, j, "running_cmd")
             /\ procs' = [procs EXCEPT ![j] =
                            [st |-> "running", unread |-> FALSE, rc |-> 0,
                             doc |-> job[w].entryFile]]
             /\ spawns' = [spawns EXCEPT ![j] = @ + 1]
             /\ Goto(w, "poll")
             /\ UNCHANGED <<success, cwd, original_cwd>>
        ELSE /\ logs' = LogAppend(LogAppend(logs, j, "running_cmd"), j, "compile_failed")
             /\ success' = [success EXCEPT ![w] = FALSE]
             /\ RestoreCwd(w)
             /\ Goto(w, "finalize")
             /\ UNCHANGED <<procs, spawns>>
    /\ UNCHANGED <<queue, working, status, cancel, files, clock, running, todo, cur,
                   job, started_at, active, submitted, marked, claimed, seenPre,
                   seenMid, written>>

\* lines 208-213: the top of the read loop tests the marker; when it is there
\* the subprocess is sent terminate and the compile step returns False
PollCancel(w) ==
    LET j == cur[w] IN
    /\ pc[w] = "poll"
    /\ IF j \in cancel
       THEN /\ procs' = [procs EXCEPT ![j] = Terminate(@)]
            /\ logs' = LogAppend(logs, j, "cancelled")
            /\ success' = [success EXCEPT ![w] = FALSE]
            /\ RestoreCwd(w)
            /\ seenMid' = seenMid \cup {j}
            /\ Goto(w, "finalize")
       ELSE /\ Goto(w, "readline")
            /\ UNCHANGED <<procs, logs, success, cwd, original_cwd, seenMid>>
    /\ UNCHANGED <<queue, working, status, cancel, files, clock, running, todo, cur,
                   job, started_at, active, submitted, marked, claimed, seenPre,
                   spawns, written>>

\* lines 215-220: process.stdout.readline() blocks until a line is there or the
\* pipe is at its end; an empty read of an exited process leaves the loop
\* (procs[j].unread: the pipe holds output that has not been read)
ReadLine(w) ==
    LET j == cur[w] IN
    /\ pc[w] = "readline"
    /\ procs[j].unread \/ procs[j].st = "exited"
    /\ IF procs[j].unread
       THEN /\ procs' = [procs EXCEPT ![j].unread = FALSE]
            /\ logs' = LogOutput(logs, j)
            /\ Goto(w, "poll")
       ELSE /\ Goto(w, "pdfcheck")
            /\ UNCHANGED <<procs, logs>>
    /\ UNCHANGED <<queue, working, status, cancel, files, clock, running, localVars,
                   active, histVars>>

\* the line "Compilation finished with return code: ..."
ReturnCodeLine(rc) == "return_code"

\* lines 222-249 and 259-260: the return code is logged, the PDF is looked for
\* and copied to output.pdf, and the working directory is restored
PdfCheck(w) ==
    LET j == cur[w]
        lg == LogAppend(logs, j, ReturnCodeLine(procs[j].rc))
        gens == GeneratedPdfs(files, job[w].entryFile)
    IN
    /\ pc[w] = "pdfcheck"
    /\ IF gens # {}
       THEN /\ \E g \in gens : files' = CopyToOutput(files, g)
            /\ logs' = LogAppend(lg, j, "pdf_generated")
            /\ success' = [success EXCEPT ![w] = TRUE]
       ELSE /\ files' = files
            /\ logs' = LogAppend(lg, j, "no_pdf")
            /\ success' = [success EXCEPT ![w] = FALSE]
    /\ RestoreCwd(w)
    /\ Goto(w, "finalize")
    /\ UNCHANGED <<queue, working, status, cancel, procs, clock, running, todo, cur,
                   job, started_at, active, histVars>>

\* _process_job, lines 145-166: finished_at = now; the final status is written
Finalize(w) ==
    LET j == cur[w] IN
    /\ pc[w] = "finalize"
    /\ status' = Put(status, j, FinalStatus(j, job[w], success[w], started_at[w], clock))
    /\ clock' = clock + 1
    /\ written' = [written EXCEPT ![j] =
                      Append(@, FinalStatus(j, job[w], success[w], started_at[w], clock))]
    /\ Goto(w, "cleanup")
    /\ UNCHANGED <<queue, working, logs, cancel, files, procs, running, localVars,
                   active, submitted, marked, claimed, seenPre, seenMid, spawns>>

\* lines 168-169: working_job.unlink(missing_ok=True)
Cleanup(w) ==
    /\ pc[w] = "cleanup"
    /\ working' = Unlink(working, cur[w])
    /\ procs' = [procs EXCEPT ![cur[w]] = Forget(@)]
    /\ Return(w)
    /\ UNCHANGED <<queue, status, logs, cancel, files, clock, running, todo,
                   cwd, original_cwd, active, histVars>>

\* _signal_handler: SIGTERM or SIGINT clears self.running
Signal(w) ==
    /\ w \in active
    /\ running[w]
    /\ running' = [running EXCEPT ![w] = FALSE]
    /\ UNCHANGED <<fsVars, procs, clock, pc, localVars, active, histVars>>

\* ------------------------------------------------------------ environment
\* a producer writes a descriptor file into compile/queue; every file is
\* written once, and a valid one carries a jobId of its own (the files are
\* interchangeable, so they are taken in the order of their numbers)
Submit(f, c) ==
    /\ f \notin submitted
    /\ \A g \in Descs : g < f => g \in submitted
    /\ queue' = Put(queue, f, c)
    /\ submitted' = submitted \cup {f}
    /\ UNCHANGED <<working, status, logs, cancel, files, procs, clock, running, pc,
                   localVars, active, marked, claimed, seenPre, seenMid, spawns,
                   written>>

\* the descriptor of jobId j, as long as it is queued or in flight
Pending(j) ==
    \/ j \in DOMAIN queue /\ queue[j].kind = "ok"
    \/ j \in DOMAIN working

\* the states a job's status record has been given, in order
States(j) == [i \in 1..Len(written[j]) |-> written[j][i].state]
Terminal == {"canceled", "failed", "success"}
HasFinal(j) == \E i \in 1..Len(written[j]) : written[j][i].state \in Terminal

\* a canceller creates compile/<jobId>.cancel, once, for a job that is
\* queued or in flight and has no final status yet
CreateCancel(j) ==
    /\ j \notin marked
    /\ Pending(j)
    /\ ~HasFinal(j)
    /\ cancel' = cancel \cup {j}
    /\ marked' = marked \cup {j}
    /\ UNCHANGED <<queue, working, status, logs, files, procs, clock, running, pc,
                   localVars, active, submitted, claimed, seenPre, seenMid, spawns,
                   written>>

\* the engine writes a line to its stdout
ProcOutput(j) ==
    /\ procs[j].st = "running"
    /\ ~procs[j].unread
    /\ procs' = [procs EXCEPT ![j].unread = TRUE]
    /\ UNCHANGED <<fsVars, clock, running, pc, localVars, active, histVars>>

\* the document the engine writes for entry file doc: <stem>.pdf
EnginePdf(doc) == Append(Stem(doc), "pdf")

\* the engine exits, by itself or on the signal, with return code 0 or not
\* (not 0 on the signal). An engine that exits by itself has written
\* <stem>.pdf into the project directory or not; nothing reads the project
\* directory while the engine runs, so the document appears with the exit.
\* An engine killed by the signal writes no document, and nothing reads what
\* it leaves behind.
ProcExit(j, rc, pdf) ==
    /\ procs[j].st \in {"running", "terminating"}
    /\ procs[j].st = "terminating" => rc # 0 /\ ~pdf
    /\ procs' = [procs EXCEPT ![j] =
                    IF @.st = "terminating" THEN Forget([@ EXCEPT !.st = "exited"])
                    ELSE [@ EXCEPT !.st = "exited", !.rc = rc]]
    /\ files' = IF pdf THEN files \cup {EnginePdf(procs[j].doc)} ELSE files
    /\ UNCHANGED <<queue, working, status, logs, cancel, clock, running, pc, localVars,
                   active, histVars>>

\* ------------------------------------------------------------------- Next
\* the steps of the workers, of the operator, of the canceller and of the
\* compiler subprocesses
Steps ==
    \/ \E w \in Workers : LoopCheck(w)
    \/ \E w \in Workers : Scan(w)
    \/ \E w \in Workers : NextJob(w)
    \/ \E w \in Workers : ReadJob(w)
    \/ \E w \in Workers : CancelCheck(w)
    \/ \E w \in Workers : CancelUnlinkJob(w)
    \/ \E w \in Workers : CancelUnlinkMarker(w)
    \/ \E w \in Workers : Claim(w)
    \/ \E w \in Workers : AnnounceRunning(w)
    \/ \E w \in Workers : InitLog(w)
    \/ \E w \in Workers : EntryCheck(w)
    \/ \E w \in Workers : Spawn(w)
    \/ \E w \in Workers : PollCancel(w)
    \/ \E w \in Workers : ReadLine(w)
    \/ \E w \in Workers : PdfCheck(w)
    \/ \E w \in Workers : Finalize(w)
    \/ \E w \in Workers : Cleanup(w)
    \/ \E w \in Workers : Signal(w)
    \/ \E j \in JobIds : CreateCancel(j)
    \/ \E j \in JobIds : ProcOutput(j)
    \/ \E j \in JobIds, rc \in {0, 1}, pdf \in BOOLEAN : ProcExit(j, rc, pdf)

\* with a producer of descriptors that are valid or malformed
Next ==
    \/ Steps
    \/ \E f \in Descs : \E c \in Contents(f) : Submit(f, c)

Spec == Init /\ [][Next]_vars

\* the worker process runs: whatever its next step is, it is taken (a read of
\* the pipe once there is something to read); and a compiler subprocess that
\* has not exited exits
WorkerStep(w) ==
    \/ LoopCheck(w) \/ Scan(w) \/ NextJob(w) \/ ReadJob(w) \/ CancelCheck(w)
    \/ CancelUnlinkJob(w) \/ CancelUnlinkMarker(w) \/ Claim(w)
    \/ AnnounceRunning(w) \/ InitLog(w) \/ EntryCheck(w) \/ Spawn(w)
    \/ PollCancel(w) \/ ReadLine(w) \/ PdfCheck(w) \/ Finalize(w) \/ Cleanup(w)

SubprocessExits(j) == \E rc \in {0, 1}, pdf \in BOOLEAN : ProcExit(j, rc, pdf)

Fairness ==
    /\ \A w \in Workers : WF_vars(WorkerStep(w))
    /\ \A j \in JobIds : WF_vars(SubprocessExits(j))

FairSpec == Init /\ [][Next]_vars /\ Fairness

\* a worker started after a crash
SpecRestart == InitRestart /\ [][Next]_vars

\* two worker processes started on the same root, a producer of valid
\* descriptors that compile, a canceller and the subprocesses; no stop signal
\* is sent
InitTwoWorkers == active = Workers /\ InitCommon /\ files = {MainTex}

SharedContents(f) ==
    { c \in ValidContents(f) : f <= MaxSharedJobs /\ c.entryFile = MainTex }

NextTwoWorkers ==
    \/ \E w \in Workers : WorkerStep(w)
    \/ \E j \in JobIds : CreateCancel(j)
    \/ \E j \in JobIds : ProcOutput(j)
    \/ \E j \in JobIds : SubprocessExits(j)
    \/ \E f \in Descs : \E c \in SharedContents(f) : Submit(f, c)

SpecTwoWorkers == InitTwoWorkers /\ [][NextTwoWorkers]_vars

\* with a producer whose descriptors may also make _process_job raise: valid
\* ones that compile, JSON that is no object, and ill-typed entry files
RaisingContents(f) ==
    { c \in ValidContents(f) : c.entryFile = MainTex }
        \cup IllTypedContents(f)
        \cup { c \in MalformedContents : c.kind = "nonobject" }

NextRaising ==
    \/ Steps
    \/ \E f \in Descs : \E c \in RaisingContents(f) : Submit(f, c)

\* one project directory is enough for it
InitRaising == Init /\ files = {MainTex}

SpecRaising == InitRaising /\ [][NextRaising]_vars

FairSpecRaising == SpecRaising /\ Fairness

\* ================================================================ the claims
Range(sq) == { sq[i] : i \in 1..Len(sq) }
LastOf(sq) == sq[Len(sq)]
\* no worker is processing job j: its processing has not begun or has finished
NotInHand(j) == \A w \in active : cur[w] # j
\* the compile step of job j left the read loop at the end of the engine's
\* output and looked for the PDF (it was not cut short)
RanToExit(j) ==
    /\ j \in DOMAIN logs
    /\ LastOf(logs[j]) \in {"pdf_generated", "no_pdf"}

\* ---------------------------------------------------------------------- C1
\* C1: when the pre-run check finds the job's marker, the job's status is
\* 'canceled' with a finishedAt and no startedAt and is never written again,
\* the descriptor is never moved to working/, no subprocess is ever started
\* for the job, and when its processing has finished the descriptor and the
\* marker are both gone.
C1_PreRunCancel ==
    \A j \in seenPre :
        /\ States(j) = <<"canceled">>
        /\ j \in DOMAIN status
        /\ status[j].state = "canceled"
        /\ "finishedAt" \in DOMAIN status[j]
        /\ "startedAt" \notin DOMAIN status[j]
        /\ j \notin claimed
        /\ j \notin DOMAIN working
        /\ spawns[j] = 0
        /\ procs[j].st = "none"
        /\ NotInHand(j) => j \notin DOMAIN queue /\ j \notin cancel

\* a job cancelled before its run, its processing finished, after a later scan
\* has begun
C1_Witness ==
    \E j \in seenPre :
        /\ NotInHand(j)
        /\ status[j].state = "canceled"
        /\ j \in submitted
        /\ \E w \in active : pc[w] = "scan"

\* ---------------------------------------------------------------------- C2
\* C2 (as claimed): a job whose marker was created after its subprocess had
\* started and before its final status was written has had its subprocess
\* terminated by the worker, and its final status is 'failed'. (A marker made
\* before the subprocess started is found by the pre-run check or by the first
\* test of the read loop; none is made after the final status.)
C2_MidRunCancelAlwaysFails ==
    \A j \in JobIds :
        (j \in marked /\ j \notin seenPre /\ spawns[j] > 0 /\ HasFinal(j))
            => (LastOf(written[j]).state = "failed" /\ j \in seenMid)

\* ---------------------------------------------------------------------- C3
\* C3 (as claimed): the step that reads a malformed descriptor (not JSON, not
\* a JSON object, or an object without jobId or projectId) deletes it from
\* queue/ and touches no status record, no log, nothing in working/ and starts
\* no subprocess.
C3_MalformedIsDiscarded ==
    [][ \A w \in active :
            ( /\ pc[w] = "read"
              /\ pc'[w] # "read"
              /\ cur[w] \in DOMAIN queue
              /\ queue[cur[w]].kind \in MalformedKinds )
            => ( /\ cur[w] \notin DOMAIN queue'
                 /\ UNCHANGED <<status, logs, working, procs, spawns>> ) ]_vars

\* ---------------------------------------------------------------------- C4
\* C4: for every jobId the subprocess is started at most once, and a terminal
\* status record (canceled, failed, success) is the last one ever written for
\* the job: no later scan writes the job's status again.
C4_NoRetry ==
    \A j \in JobIds :
        /\ spawns[j] <= 1
        /\ \A i \in 1..Len(written[j]) :
               written[j][i].state \in Terminal => i = Len(written[j])

\* a job that was compiled and has its final status, its descriptor deleted,
\* while the worker begins a later scan
C4_Witness ==
    \E j \in JobIds :
        /\ spawns[j] = 1
        /\ HasFinal(j)
        /\ j \notin DOMAIN queue /\ j \notin DOMAIN working
        /\ \E w \in active : pc[w] = "scan"

\* ---------------------------------------------------------------------- C5
\* name shares the entry file's base name (it begins with "<stem>.") and its
\* last suffix is pdf
PdfOfBaseName(name, entry) ==
    LET k == Len(entry) - 1 IN
    /\ Len(name) > k
    /\ \A i \in 1..k : name[i] = entry[i]
    /\ name[Len(name)] = "pdf"

\* C5 (as claimed): when the subprocess ran until it exited, the final status
\* is 'success' if and only if the file <entry base name>.pdf exists in the
\* project directory.
C5_SuccessIffStemPdf ==
    \A w \in active :
        (pc[w] = "cleanup" /\ RanToExit(cur[w]))
            => (status[cur[w]].state = "success"
                    <=> EnginePdf(job[w].entryFile) \in files)

\* C5 (amended): when the subprocess ran until it exited, the final status is
\* 'success' if and only if the project directory holds some file that shares
\* the entry file's base name and ends in .pdf (main.pdf, but also
\* main.fig.pdf); the return code has no part in it.
C5_SuccessIffSomePdf ==
    \A w \in active :
        (pc[w] = "cleanup" /\ RanToExit(cur[w]))
            => (status[cur[w]].state = "success"
                    <=> \E n \in files : PdfOfBaseName(n, job[w].entryFile))

\* the engine exited with a return code that is not 0, a PDF is there, and the
\* final status is 'success'
C5_Witness ==
    \E w \in active :
        /\ pc[w] = "cleanup"
        /\ RanToExit(cur[w])
        /\ procs[cur[w]].rc # 0
        /\ status[cur[w]].state = "success"

\* ---------------------------------------------------------------------- C6
\* C6: when the final status of a job is written whose marker was never
\* created, whose subprocess was started (so its entry file exists) and whose
\* run left <stem>.pdf in the project directory, that status is 'success' and
\* output.pdf exists.
C6_PdfGivesSuccess ==
    \A w \in active :
        ( /\ pc[w] = "cleanup"
          /\ cur[w] \notin marked
          /\ spawns[cur[w]] > 0
          /\ EnginePdf(job[w].entryFile) \in files )
        => ( /\ status[cur[w]].state = "success"
             /\ OutputPdf \in files )

\* such a job, its final status just written
C6_Witness ==
    \E w \in active :
        /\ pc[w] = "cleanup"
        /\ cur[w] \notin marked
        /\ spawns[cur[w]] > 0
        /\ EnginePdf(job[w].entryFile) \in files
        /\ status[cur[w]].state = "success"

\* ---------------------------------------------------------------------- C7
\* C7: a job past the pre-run check whose entry file does not exist never has
\* a subprocess, and when its final status is written that status is 'failed'
\* and the log holds the "Entry file ... not found" line.
C7_MissingEntryFails ==
    \A w \in active :
        (job[w].kind = "ok" /\ job[w].entryFile \notin files)
            => /\ spawns[cur[w]] = 0
               /\ pc[w] \notin {"spawn", "poll", "readline", "pdfcheck"}
               /\ pc[w] = "cleanup"
                    => /\ status[cur[w]].state = "failed"
                       /\ "entry_not_found" \in Range(logs[cur[w]])

\* a job with a missing entry file, its final status just written
C7_Witness ==
    \E w \in active :
        /\ pc[w] = "cleanup"
        /\ job[w].entryFile \notin files
        /\ status[cur[w]].state = "failed"

\* ---------------------------------------------------------------------- C8
\* the last status record of job j is a final one that keeps the startedAt and
\* the revision of the 'running' record written before it
FinalKeepsRunning(j) ==
    /\ Len(written[j]) = 2
    /\ status[j] = written[j][2]
    /\ written[j][1].state = "running"
    /\ written[j][2].state \in {"success", "failed"}
    /\ "finishedAt" \in DOMAIN written[j][2]
    /\ written[j][2].startedAt = written[j][1].startedAt
    /\ written[j][2].revision = written[j][1].revision

Phase(j) ==
    IF j \in DOMAIN status /\ status[j].state \in Terminal THEN status[j].state
    ELSE IF j \in DOMAIN working THEN "working"
    ELSE IF j \in DOMAIN queue /\ queue[j].kind = "ok" THEN "queued"
    ELSE "none"

\* C9 (as claimed): a job's state changes only along
\* queued -> working -> {canceled, failed, success}.
C9_TerminalOnlyFromWorking ==
    [][ \A j \in JobIds :
            Phase(j)' # Phase(j) =>
                \/ Phase(j) = "none" /\ Phase(j)' = "queued"
                \/ Phase(j) = "queued" /\ Phase(j)' = "working"
                \/ Phase(j) = "working" /\ Phase(j)' \in Terminal ]_vars

\* C9 (amended): a job's state changes only along queued -> working ->
\* {failed, success} and queued -> canceled: 'canceled' is entered from
\* queued, never from working; a job never goes back from working to queued;
\* a terminal state is never left.
C9_StateMachine ==
    [][ \A j \in JobIds :
            Phase(j)' # Phase(j) =>
                \/ Phase(j) = "none" /\ Phase(j)' = "queued"
                \/ Phase(j) = "queued" /\ Phase(j)' \in {"working", "canceled"}
                \/ Phase(j) = "working" /\ Phase(j)' \in {"failed", "success"} ]_vars

\* one job is canceled without ever having been in working/, another has gone
\* through working/ to a final status
C9_Witness ==
    \E j, k \in JobIds :
        /\ Phase(j) = "canceled" /\ j \notin claimed
        /\ Phase(k) \in {"failed", "success"} /\ k \in claimed

\* --------------------------------------------------------------------- C10
\* C10 (as claimed): a marker that the worker has found, in the pre-run check
\* or in the read loop, no longer exists when the processing of its job has
\* finished.
C10_ObservedMarkerIsConsumed ==
    \A j \in seenPre \cup seenMid : NotInHand(j) => j \notin cancel

\* --------------------------------------------------------------------- C11
\* C11 (as claimed): when the worker loop has stopped, no descriptor that the
\* worker claimed is still in working/ and no job whose status the worker
\* wrote is still 'running'.
C11_CleanShutdown ==
    \A w \in active :
        pc[w] = "stopped" =>
            /\ \A f \in claimed : f \notin DOMAIN working
            /\ \A j \in JobIds :
                   Len(written[j]) > 0 => status[j].state # "running"

\* --------------------------------------------------------------------- C12
\* the next step of worker w raises an error that leaves _process_job: the
\* descriptor is JSON but no object (line 86), the move finds no file
\* (line 120), or the entry file's path cannot be built (line 173)
RaisesNext(w) ==
    \/ pc[w] = "read" /\ cur[w] \in DOMAIN queue /\ queue[cur[w]].kind = "nonobject"
    \/ pc[w] = "claim" /\ cur[w] \notin DOMAIN queue
    \/ pc[w] = "entrycheck" /\ PathJoinRaises(job[w].entryFile)

\* C12: the step in which the processing of a descriptor raises an error takes
\* the worker back to the for loop of the scan with the remaining descriptors
\* of that scan untouched and self.running unchanged; the for loop takes each
\* remaining descriptor in turn and, at its end, goes back to the run loop,
\* which begins the next scan unless a stop signal has come.
C12_FailureIsolated ==
    [][ \A w \in active :
            /\ (RaisesNext(w) /\ pc'[w] # pc[w])
                   => /\ pc'[w] = "next"
                      /\ todo'[w] = todo[w]
                      /\ running'[w] = running[w]
            /\ (pc[w] = "next" /\ pc'[w] # "next")
                   => IF todo[w] = <<>> THEN pc'[w] = "loop"
                      ELSE /\ pc'[w] = "read"
                           /\ cur'[w] = Head(todo[w])
                           /\ todo'[w] = Tail(todo[w])
            /\ (pc[w] = "loop" /\ pc'[w] # "loop" /\ running[w])
                   => pc'[w] = "scan" ]_vars

\* the processing of job k raised after the move (k is stuck in working/), the
\* worker has since compiled job j to its final status, finished that scan and
\* is back at the top of the run loop, not stopped
C12_Witness ==
    \E w \in active : \E k \in DOMAIN working : \E j \in JobIds :
        /\ pc[w] = "loop" /\ running[w]
        /\ PathJoinRaises(working[k].entryFile)
        /\ k \in DOMAIN status /\ status[k].state = "running"
        /\ j # k /\ HasFinal(j) /\ spawns[j] = 1
        /\ status[j].startedAt > status[k].startedAt

\* --------------------------------------------------------------------- C13
\* the subprocess started for job j has not exited
Alive(j) == procs[j].st \in {"running", "terminating"}

\* C13 (as claimed): at most one subprocess started by the worker is alive,
\* one that was sent terminate and has not yet exited included.
C13_OneSubprocessAlive == Cardinality({ j \in JobIds : Alive(j) }) <= 1

\* --------------------------------------------------------------------- C14
\* C14 (as claimed): while the subprocess the worker started for a job has not
\* exited, the job's descriptor is in working/ and not in queue/ and the job's
\* status is 'running' with a startedAt; a subprocess is started only for a
\* job whose first status record is the 'running' one, and that record is
\* written only for a descriptor that was moved to working/ before.
C14_ClaimAnnounceThenWork ==
    \A j \in JobIds :
        /\ Alive(j)
               => /\ j \in DOMAIN working
                  /\ j \notin DOMAIN queue
                  /\ j \in DOMAIN status
                  /\ status[j].state = "running"
                  /\ "startedAt" \in DOMAIN status[j]
        /\ spawns[j] > 0
               => /\ Len(written[j]) >= 1
                  /\ written[j][1].state = "running"
                  /\ "startedAt" \in DOMAIN written[j][1]
        /\ (Len(written[j]) >= 1 /\ written[j][1].state = "running")
               => j \in claimed
        /\ \A w \in active :
               (cur[w] = j /\ pc[w] \in {"announce", "initlog", "entrycheck", "spawn"})
                   => /\ j \in DOMAIN working /\ j \notin DOMAIN queue
                      /\ ~Alive(j)
                      /\ pc[w] # "announce" => status[j].state = "running"

\* --------------------------------------------------------------------- C15
\* the positions of the compile step between os.chdir(project_dir) and the
\* finally clause
InCompile == {"spawn", "poll", "readline", "pdfcheck"}

\* C15: outside the compile step the worker's working directory is the one
\* it was started in, whatever way the compile steps before were left; inside
\* it is the project directory, and original_cwd holds the directory to go
\* back to.
C15_CwdRestored ==
    \A w \in active :
        IF pc[w] \in InCompile
        THEN cwd[w] = ProjectDir /\ original_cwd[w] = StartDir
        ELSE cwd[w] = StartDir

\* one compile step was left by the mid-run cancellation, a later one has
\* just found its PDF and returned
C15_Witness ==
    \E w \in active :
        /\ pc[w] = "finalize" /\ success[w] /\ spawns[cur[w]] = 1
        /\ cwd[w] = StartDir
        /\ \E j \in seenMid : j # cur[w] /\ HasFinal(j)

\* --------------------------------------------------------------------- C16
\* C16: the loop is never stopped while self.running holds; once the stop
\* signal has cleared it, the test at the top of the loop never again lets a
\* scan begin, the scan in progress (the iteration whose test was passed
\* before the signal) still takes every remaining descriptor in turn, the loop
\* stops nowhere but at its test, and, every subprocess in flight exiting, the
\* loop eventually stops.
C16_RunsUntilStopSignal ==
    /\ [](\A w \in active : pc[w] = "stopped" => ~running[w])
    /\ [][ \A w \in active :
               /\ (pc'[w] = "stopped" /\ pc[w] # "stopped")
                      => pc[w] = "loop" /\ ~running[w]
               /\ ~running[w] => ~(pc[w] = "loop" /\ pc'[w] = "scan")
               /\ (~running[w] /\ pc[w] = "next" /\ pc'[w] # "next")
                      => IF todo[w] = <<>> THEN pc'[w] = "loop"
                         ELSE pc'[w] = "read" /\ cur'[w] = Head(todo[w]) ]_vars
    /\ \A w \in Workers : (w \in active /\ ~running[w]) ~> (pc[w] = "stopped")

\* the loop has stopped after two jobs were compiled to their final status,
\* one after the other
C16_Witness ==
    \E w \in active : \E j, k \in JobIds :
        /\ pc[w] = "stopped" /\ ~running[w]
        /\ HasFinal(j) /\ spawns[j] = 1
        /\ HasFinal(k) /\ spawns[k] = 1
        /\ status[j].finishedAt < status[k].startedAt

\* --------------------------------------------------------------------- C17
\* C17: the descriptor that was in working/ when the worker started stays
\* there, unchanged, with its status record as the crashed run left it
\* ('running'); no scan lists it, the worker never has it in hand, never moves
\* it, never writes its status and never starts a subprocess for it.
C17_OrphanUntouched ==
    /\ OrphanDesc \in DOMAIN working
    /\ working[OrphanDesc] \in ValidContents(OrphanDesc)
    /\ OrphanDesc \notin DOMAIN queue
    /\ OrphanDesc \in DOMAIN status
    /\ status[OrphanDesc] = RunningStatus(OrphanDesc, working[OrphanDesc], 0)
    /\ logs[OrphanDesc] = <<"header">>
    /\ \A w \in active : cur[w] # OrphanDesc /\ OrphanDesc \notin Range(todo[w])
    /\ OrphanDesc \notin claimed
    /\ written[OrphanDesc] = <<>>
    /\ spawns[OrphanDesc] = 0
    /\ procs[OrphanDesc].st = "none"

\* the worker has compiled a job that came after the restart and begins yet
\* another scan, the orphan still in working/
C17_Witness ==
    \E w \in active : \E j \in JobIds :
        /\ pc[w] = "scan"
        /\ j # OrphanDesc /\ HasFinal(j) /\ spawns[j] = 1
        /\ j \notin DOMAIN working
        /\ OrphanDesc \in DOMAIN working
        /\ status[OrphanDesc].state = "running"

\* --------------------------------------------------------------------- C18
\* the positions of _process_job after the move to working/
PostClaim ==
    {"announce", "initlog", "entrycheck", "spawn", "poll", "readline", "pdfcheck",
     "finalize", "cleanup"}

\* the 'running' records among the status records written for job j
RunningRecords(j) == { i \in 1..Len(written[j]) : written[j][i].state = "running" }

\* C18: with two workers on one root, at no time are both past the move with
\* the same descriptor, a job's 'running' status is written at most once and a
\* subprocess is started for it at most once; and the step in which a worker's
\* move finds the descriptor gone (the other worker took it) is an error that
\* ends this worker's processing of the descriptor with no status written, no
\* subprocess started and working/ untouched.
C18_ClaimedByOneWorker ==
    /\ [](\A f \in Descs :
             /\ Cardinality({ w \in Workers : cur[w] = f /\ pc[w] \in PostClaim }) <= 1
             /\ Cardinality(RunningRecords(f)) <= 1
             /\ spawns[f] <= 1)
    /\ [][ \A w \in Workers :
               (pc[w] = "claim" /\ pc'[w] # "claim" /\ cur[w] \notin DOMAIN queue)
                   => /\ pc'[w] = "next"
                      /\ UNCHANGED <<working, status, written, procs, spawns>> ]_vars

\* both workers listed and read the same descriptor and passed the pre-run
\* check; one has moved it and started the subprocess, the other is about to
\* try the move
C18_Witness ==
    \E f \in Descs : \E v, w \in Workers :
        /\ v # w
        /\ cur[v] = f /\ pc[v] = "readline" /\ procs[f].st = "running"
        /\ cur[w] = f /\ pc[w] = "claim"

\* --------------------------------------------------------------------- C19
\* descriptor f is in queue/ and passes the worker's validation
ValidQueued(f) == f \in DOMAIN queue /\ queue[f].kind = "ok"

\* job f has a terminal status record and its descriptor is in neither directory
Settled(f) ==
    /\ f \in DOMAIN status
    /\ status[f].state \in Terminal
    /\ f \notin DOMAIN queue
    /\ f \notin DOMAIN working

\* a stop signal was received
StopSignalled == \E w \in Workers : w \in active /\ ~running[w]

\* C19 (as claimed): the worker process taking its steps and every subprocess
\* exiting, a valid descriptor in queue/ leads to a terminal status record
\* with the descriptor gone from queue/ and working/, unless a stop signal is
\* received.
C19_Progress ==
    \A f \in Descs : ValidQueued(f) ~> (Settled(f) \/ StopSignalled)

====
